---------------------------- MODULE Spec2Model ----------------------------
(***************************************************************************)
(* rspell: a spell checker for source code.                                *)
(*                                                                         *)
(* The model covers                                                        *)
(*   - main and handle_file (src/src/main.rs): the parallel run over the   *)
(*     files, the cursor walk over each file's syntax tree and the         *)
(*     found/total counters;                                               *)
(*   - contains_typo, get_all_word_parts, split_pascal_case                *)
(*     (src/src/main.rs): the recursive classifier;                        *)
(*   - extract_words and its stages (src/src/parsing/word_separator.rs).   *)
(*                                                                         *)
(* A string is a sequence of characters.  A character is one of the names  *)
(* below; each stands for a class of Unicode scalar values the code        *)
(* distinguishes (case, digit, whitespace, word-break class, UTF-8 width,  *)
(* lowercase mapping).                                                     *)
(***************************************************************************)
EXTENDS Integers, Sequences, FiniteSets, TLC

(***************************************************************************)
(* Characters                                                              *)
(*   "a" "i"   U+0061, U+0069   lowercase letters                          *)
(*   "A"       U+0041           uppercase letter, lowercases to "a"        *)
(*   "Idot"    U+0130           uppercase letter, two bytes, lowercases to *)
(*                              the two characters U+0069 U+0307           *)
(*   "cdot"    U+0307           combining dot above (two bytes)            *)
(*   "1"       U+0031           ASCII digit                                *)
(*   "_"       U+005F           underscore                                 *)
(*   " "       U+0020           whitespace                                 *)
(*   "/"       U+002F           punctuation                                *)
(***************************************************************************)
Lu == {"A", "Idot"}
Ll == {"a", "i"}
AsciiDigit == {"1"}
Whitespace == {" "}
Underscore == {"_"}
Chars == Lu \cup Ll \cup AsciiDigit \cup Whitespace \cup Underscore \cup {"/", "cdot"}

\* char::len_utf8
Utf8Len(c) == IF c \in {"Idot", "cdot"} THEN 2 ELSE 1

\* char::is_uppercase
IsUppercase(c) == c \in Lu

\* char::is_alphanumeric
IsAlphanumeric(c) == c \in Lu \cup Ll \cup AsciiDigit

\* char::to_lowercase: the lowercase mapping of one character
CharToLowercase(c) ==
    CASE c = "A" -> <<"a">>
      [] c = "Idot" -> <<"i", "cdot">>
      [] OTHER -> <<c>>

\* The Word_Break property (UAX #29) of a character
WordBreak(c) ==
    CASE c \in Lu \cup Ll -> "ALetter"
      [] c \in AsciiDigit -> "Numeric"
      [] c \in Underscore -> "ExtendNumLet"
      [] c \in Whitespace -> "WSegSpace"
      [] c = "cdot" -> "Extend"
      [] OTHER -> "Other"

(***************************************************************************)
(* Strings                                                                 *)
(***************************************************************************)
\* str::len: the length in bytes of the UTF-8 encoding
RECURSIVE ByteLen(_)
ByteLen(s) == IF s = <<>> THEN 0 ELSE Utf8Len(Head(s)) + ByteLen(Tail(s))

\* str::to_lowercase
RECURSIVE ToLowercase(_)
ToLowercase(s) ==
    IF s = <<>> THEN <<>> ELSE CharToLowercase(Head(s)) \o ToLowercase(Tail(s))

\* The concatenation of a sequence of sequences: what Iterator::flat_map
\* yields, given the items each element maps to
Flatten(seqs) ==
    LET f[i \in 0..Len(seqs)] == IF i = 0 THEN <<>> ELSE f[i - 1] \o seqs[i]
    IN  f[Len(seqs)]

\* str::split on the characters of seps: the pieces between separators,
\* empty pieces included
RECURSIVE SplitRec(_, _, _)
SplitRec(s, seps, cur) ==
    IF s = <<>> THEN <<cur>>
    ELSE IF Head(s) \in seps THEN <<cur>> \o SplitRec(Tail(s), seps, <<>>)
    ELSE SplitRec(Tail(s), seps, Append(cur, Head(s)))

Split(s, seps) == SplitRec(s, seps, <<>>)

\* str::split_terminator: as split, without a trailing empty piece
SplitTerminator(s, seps) ==
    LET p == Split(s, seps)
    IN  IF p[Len(p)] = <<>> THEN SubSeq(p, 1, Len(p) - 1) ELSE p

\* str::split_whitespace: the non-empty pieces between whitespace
SplitWhitespace(s) == SelectSeq(Split(s, Whitespace), LAMBDA p : p # <<>>)

\* The Word_Break class that decides the boundary after position i:
\* Extend characters are skipped backwards (rule WB4)
RECURSIVE PrevClass(_, _)
PrevClass(s, i) ==
    IF WordBreak(s[i]) = "Extend" /\ i > 1 THEN PrevClass(s, i - 1)
    ELSE WordBreak(s[i])

Joining == {"ALetter", "Numeric", "ExtendNumLet"}

\* No word boundary between s[i] and s[i+1] (rules WB3d, WB4, WB5, WB8-WB10,
\* WB13a, WB13b)
NoBreak(s, i) ==
    \/ WordBreak(s[i + 1]) = "Extend"
    \/ WordBreak(s[i]) = "WSegSpace" /\ WordBreak(s[i + 1]) = "WSegSpace"
    \/ PrevClass(s, i) \in Joining /\ WordBreak(s[i + 1]) \in Joining

\* UnicodeSegmentation::split_word_bounds
RECURSIVE WordBoundsRec(_, _, _)
WordBoundsRec(s, i, cur) ==
    IF i > Len(s) THEN (IF cur = <<>> THEN <<>> ELSE <<cur>>)
    ELSE IF i < Len(s) /\ NoBreak(s, i)
         THEN WordBoundsRec(s, i + 1, Append(cur, s[i]))
         ELSE <<Append(cur, s[i])>> \o WordBoundsRec(s, i + 1, <<>>)

SplitWordBounds(s) == WordBoundsRec(s, 1, <<>>)

\* UnicodeSegmentation::unicode_words: the segments between word boundaries
\* that hold an alphanumeric character
UnicodeWords(s) ==
    SelectSeq(SplitWordBounds(s),
              LAMBDA w : \E i \in 1..Len(w) : IsAlphanumeric(w[i]))


(***************************************************************************)
(* word_separator.rs: the stages of extract_words                          *)
(***************************************************************************)
\* split_unicode_word_boundary
split_unicode_word_boundary(text) == UnicodeWords(text)

\* split_snake_case
split_snake_case(text) == SplitTerminator(text, Underscore)

\* split_on_numbers
split_on_numbers(text) == SplitTerminator(text, AsciiDigit)

\* The length of the match of \p{Lu}+(?=\p{Lu}\p{Ll}) at position p, 0 when
\* it does not match: the longest run of uppercase letters from p that is
\* followed by an uppercase and then a lowercase letter
AcronymMatch(text, p) ==
    LET ks == {k \in 1..(Len(text) - p - 1) :
                  /\ \A j \in p..(p + k - 1) : text[j] \in Lu
                  /\ text[p + k] \in Lu
                  /\ text[p + k + 1] \in Ll}
    IN  IF ks = {} THEN 0 ELSE CHOOSE k \in ks : \A m \in ks : m <= k

\* The number of lowercase letters from position p on
RECURSIVE LowerRun(_, _)
LowerRun(text, p) ==
    IF p <= Len(text) /\ text[p] \in Ll THEN 1 + LowerRun(text, p + 1) ELSE 0

\* The length of the match of \p{Lu}?\p{Ll}+ at position p, 0 when it does
\* not match
WordMatch(text, p) ==
    IF text[p] \in Lu /\ LowerRun(text, p + 1) > 0 THEN 1 + LowerRun(text, p + 1)
    ELSE LowerRun(text, p)

\* The length of the match of the whole expression at position p: the first
\* alternative that matches
RegexMatch(text, p) ==
    IF AcronymMatch(text, p) > 0 THEN AcronymMatch(text, p) ELSE WordMatch(text, p)

\* Regex::find_iter: the successive non-overlapping matches, leftmost first
RECURSIVE FindIter(_, _)
FindIter(text, p) ==
    IF p > Len(text) THEN <<>>
    ELSE LET n == RegexMatch(text, p)
         IN  IF n = 0 THEN FindIter(text, p + 1)
             ELSE <<SubSeq(text, p, p + n - 1)>> \o FindIter(text, p + n)

\* split_camel_case
split_camel_case(text) == FindIter(text, 1)

\* The 3 of input.len() < 3 in contains_typo
MinWordBytes == 3

\* The 2 of str.len() > 2 in extract_words
ShortWordBytes == 2

\* extract_words: the stages in the order of the iterator chain
extract_words(text) ==
    LET s1 == SplitWhitespace(text)
        s2 == Flatten([i \in 1..Len(s1) |-> split_on_numbers(s1[i])])
        s3 == Flatten([i \in 1..Len(s2) |-> split_unicode_word_boundary(s2[i])])
        s4 == Flatten([i \in 1..Len(s3) |-> split_snake_case(s3[i])])
        s5 == Flatten([i \in 1..Len(s4) |-> split_camel_case(s4[i])])
        s6 == [i \in 1..Len(s5) |-> ToLowercase(s5[i])]
    IN  SelectSeq(s6, LAMBDA w : ByteLen(w) > ShortWordBytes)

(***************************************************************************)
(* main.rs: the classifier                                                 *)
(***************************************************************************)
\* split_special_characters without the filter of unicode_words
split_word_bounds_only(input) == SplitWordBounds(input)

\* split_special_characters
split_special_characters(input) == UnicodeWords(input)

\* split_pascal_case: result and current after the characters 1..i
RECURSIVE PascalRec(_, _, _, _)
PascalRec(input, i, result, current) ==
    IF i > Len(input) THEN Append(result, current)
    ELSE IF IsUppercase(input[i]) /\ current # <<>>
         THEN PascalRec(input, i + 1, Append(result, current), <<input[i]>>)
         ELSE PascalRec(input, i + 1, result, Append(current, input[i]))

split_pascal_case(input) == PascalRec(input, 1, <<>>, <<>>)

\* get_all_word_parts
get_all_word_parts(input) ==
    LET parts == split_special_characters(input)
    IN  Flatten([i \in 1..Len(parts) |-> split_pascal_case(parts[i])])

\* TooShort with the floor one byte lower
TooShortBelowTwo(in) == ByteLen(in) < MinWordBytes - 1

\* input.len() < 3
TooShort(in) == ByteLen(in) < MinWordBytes

\* contains_typo, as a function of its arguments (word_parts and each
\* lowercased word are bound once, as the let and the loop variable are)
RECURSIVE contains_typo(_, _)
contains_typo(in, dict) ==
    IF TooShort(in) THEN FALSE
    ELSE IF in \in dict THEN FALSE
    ELSE \E parts \in {get_all_word_parts(in)} :
            \/ Len(parts) = 1
            \/ /\ Len(parts) # 1
               /\ \E k \in 1..Len(parts) :
                     \E word \in {ToLowercase(parts[k])} : contains_typo(word, dict)

(***************************************************************************)
(* State                                                                   *)
(***************************************************************************)
VARIABLES
    dictionary,     \* main: the loaded Dictionary (read-only after the load)
    files,          \* main: the globbed files, by name
    task,           \* per file: the closure of par_iter and handle_file
    mainpc,         \* main: "par_iter", "done" (summary printed) or "panicked"
    found,          \* main: found
    total,          \* main: total
    done_files,     \* main: the number printed as "Done with {} files"
    input,          \* contains_typo: the argument of the outermost call
    stack,          \* contains_typo: the call stack, outermost call first
    result,         \* contains_typo: "pending", then "true" or "false", the
                    \* value of the outermost call
    decompositions, \* contains_typo: the calls of get_all_word_parts so far
    text,           \* the string given to get_all_word_parts and extract_words
    stage,          \* the last stage applied to text
    word_parts,     \* get_all_word_parts: the items after its last stage
    fragments       \* extract_words: the items after its last stage

runVars == <<files, task, mainpc, found, total, done_files>>
typoVars == <<input, stack, result, decompositions>>
segVars == <<text, stage, word_parts, fragments>>
vars == <<dictionary, runVars, typoVars, segVars>>

(***************************************************************************)
(* Bounds and inputs                                                       *)
(***************************************************************************)
\* The largest syntax tree of the single-file walk
MaxNodes == 4
\* The largest syntax tree of a file of the parallel run
MaxRunNodes == 2
\* The longest token given to contains_typo
MaxTokenLen == 3
\* The longest text given to extract_words
MaxTextLen == 4

\* The names of the files of the parallel run
Files == {"f1", "f2"}

\* The characters input strings are made of
InputChars == Chars \ {"cdot"}

\* All strings of at most n input characters
StringsUpTo(n) == UNION {[1..k -> InputChars] : k \in 0..n}

\* Longer tokens, in the shape of the examples: hello_world, helloWorld,
\* hello2world, "hello world"
SampleTokens ==
    {<<"a", "i", "a", "_", "i", "i", "i">>,
     <<"a", "i", "a", "A", "i", "a">>,
     <<"a", "i", "a", "1", "i", "i", "i">>,
     <<"a", "i", "a", " ", "i", "i", "i">>,
     <<"A", "A", "A", "a", "i", "a">>}

\* The dictionaries: empty; lowercase words and a two-letter word; a
\* capitalised word and the lowercase form of "Idot"
Dictionaries ==
    {{},
     {<<"a", "i", "a">>, <<"i", "i", "i">>, <<"a", "i">>},
     {<<"A", "i", "a">>, <<"i", "cdot">>}}

(***************************************************************************)
(* Syntax trees (tree_sitter::Tree and TreeCursor)                         *)
(*                                                                         *)
(* The nodes of a tree are 1..n, node 1 is the root, parent[i] < i is the  *)
(* parent of node i (0 for the root) and the children of a node are in     *)
(* the order of their numbers.                                             *)
(***************************************************************************)
\* The source text of every readable file: "aia_A" and U+0130, 7 bytes
Content == <<"a", "i", "a", "_", "A", "Idot">>

\* The kinds and byte ranges a node can have
NodeLabels ==
    <<[kind |-> "program", range |-> <<0, 7>>],
      [kind |-> "comment", range |-> <<0, 2>>],
      [kind |-> "identifier", range |-> <<0, 3>>],
      [kind |-> "string_fragment", range |-> <<0, 5>>],
      [kind |-> "property_identifier", range |-> <<4, 7>>],
      [kind |-> "identifier", range |-> <<4, 6>>]>>

\* The parent vectors of the trees of n nodes
TreesOf(n) ==
    {p \in [1..n -> 0..(n - 1)] :
        /\ p[1] = 0
        /\ \A i \in 2..n : p[i] \in 1..(i - 1)}

\* The labelling of n nodes that starts at label k and goes round NodeLabels
Labelling(n, k) ==
    [i \in 1..n |-> NodeLabels[((i - 1 + k) % Len(NodeLabels)) + 1]]

\* A file: whether set_language, read_to_string and parse succeed on it,
\* and the tree parse returns
ParsedFiles(maxNodes) ==
    {[langOk |-> TRUE, readable |-> TRUE, parseOk |-> TRUE,
      parent |-> p, label |-> Labelling(Len(p), k)] :
        p \in UNION {TreesOf(n) : n \in 1..maxNodes},
        k \in 0..(Len(NodeLabels) - 1)}

FailingFiles ==
    {[langOk |-> l, readable |-> r, parseOk |-> q,
      parent |-> <<0>>, label |-> Labelling(1, 0)] :
        l \in BOOLEAN, r \in BOOLEAN, q \in BOOLEAN} \
    {[langOk |-> TRUE, readable |-> TRUE, parseOk |-> TRUE,
      parent |-> <<0>>, label |-> Labelling(1, 0)]}

AllFiles(maxNodes) == ParsedFiles(maxNodes) \cup FailingFiles

\* TreeCursor::goto_first_child: the first child of node n, 0 when none
FirstChild(parent, n) ==
    LET cs == {i \in 1..Len(parent) : parent[i] = n}
    IN  IF cs = {} THEN 0 ELSE CHOOSE c \in cs : \A d \in cs : c <= d

\* TreeCursor::goto_next_sibling: the next sibling of node n, 0 when none
\* (the node the cursor was created on has none)
NextSibling(parent, n) ==
    LET ss == {i \in 1..Len(parent) : i > n /\ parent[i] = parent[n] /\ n # 1}
    IN  IF ss = {} THEN 0 ELSE CHOOSE c \in ss : \A d \in ss : c <= d

\* TreeCursor::goto_parent: the parent of node n, 0 at the node the cursor
\* was created on
Parent(parent, n) == parent[n]

\* The byte offsets of the boundaries between the characters of s
\* (str::is_char_boundary)
CharBoundaries(s) == {ByteLen(SubSeq(s, 1, k)) : k \in 0..Len(s)}

\* &content[byte_range] succeeds: the range is in order, inside the string
\* and on character boundaries; the slice panics otherwise
ValidRange(s, range) ==
    /\ range[1] <= range[2]
    /\ range[1] \in CharBoundaries(s)
    /\ range[2] \in CharBoundaries(s)

\* &content[byte_range] for a valid range
Slice(s, range) ==
    LET from == CHOOSE k \in 0..Len(s) : ByteLen(SubSeq(s, 1, k)) = range[1]
        to == CHOOSE k \in 0..Len(s) : ByteLen(SubSeq(s, 1, k)) = range[2]
    IN  SubSeq(s, from + 1, to)

\* KIND_TO_TYPE_CHECK
KIND_TO_TYPE_CHECK ==
    {"comment", "string_fragment", "identifier", "property_identifier"}


(***************************************************************************)
(* main and handle_file                                                    *)
(*                                                                         *)
(* task[f].pc is the position of file f's closure: "queued", then          *)
(*   "none"         set_language failed: filter_map drops the file         *)
(*   "err"          handle_file returned Err (read or parse failed)        *)
(*   "visit"        top of the loop                                        *)
(*   "first_child"  at cursor.goto_first_child()                           *)
(*   "next_sibling" at cursor.goto_next_sibling()                          *)
(*   "climb"        at the condition of the while loop                     *)
(*   "climb_parent" at cursor.goto_parent() inside the while loop          *)
(*   "ok"           handle_file returned Ok((found, total))                *)
(*   "panicked"     the slice of content panicked                          *)
(***************************************************************************)
Walking == {"visit", "first_child", "next_sibling", "climb", "climb_parent"}
Finished == {"none", "err", "ok", "panicked"}

NewTask == [pc |-> "queued", cursor |-> 0, found |-> 0, total |-> 0, visited |-> <<>>]

\* The closure of par_iter up to the first visit: set_language, then
\* handle_file's read_to_string, parse and tree.root_node().walk()
StartFile(f) ==
    /\ mainpc = "par_iter"
    /\ task[f].pc = "queued"
    /\ \/ /\ ~files[f].langOk
          /\ task' = [task EXCEPT ![f].pc = "none"]
       \/ /\ files[f].langOk
          /\ ~files[f].readable \/ ~files[f].parseOk
          /\ task' = [task EXCEPT ![f].pc = "err"]
       \/ /\ files[f].langOk /\ files[f].readable /\ files[f].parseOk
          /\ task' = [task EXCEPT ![f].pc = "visit", ![f].cursor = 1]
    /\ UNCHANGED <<dictionary, files, mainpc, found, total, done_files, typoVars, segVars>>

\* VisitCounts with total += 1 inside the if of contains_typo
VisitCountsTotalInside(t, kind, txt, dict) ==
    IF kind \in KIND_TO_TYPE_CHECK /\ contains_typo(txt, dict)
    THEN [t EXCEPT !.found = @ + 1, !.total = @ + 1]
    ELSE t

\* found and total after the node of this kind and text
VisitCounts(t, kind, txt, dict) ==
    IF kind \in KIND_TO_TYPE_CHECK
    THEN [t EXCEPT !.found = IF contains_typo(txt, dict) THEN @ + 1 ELSE @,
                   !.total = @ + 1]
    ELSE t

\* The loop body up to the counters: the node under the cursor, its kind,
\* its text, contains_typo
Visit(f) ==
    LET t == task[f]
        label == files[f].label[t.cursor]
        seen == [t EXCEPT !.visited = Append(@, t.cursor)]
    IN  /\ t.pc = "visit"
        /\ \/ /\ ~ValidRange(Content, label.range)
              /\ task' = [task EXCEPT ![f] = [seen EXCEPT !.pc = "panicked"]]
           \/ /\ ValidRange(Content, label.range)
              /\ task' = [task EXCEPT ![f] =
                    [VisitCounts(seen, label.kind, Slice(Content, label.range),
                                 dictionary)
                        EXCEPT !.pc = "first_child"]]
        /\ UNCHANGED <<dictionary, files, mainpc, found, total, done_files, typoVars, segVars>>

\* if cursor.goto_first_child() { continue; }
GotoFirstChild(f) ==
    LET t == task[f]
        c == FirstChild(files[f].parent, t.cursor)
    IN  /\ t.pc = "first_child"
        /\ \/ /\ c # 0
              /\ task' = [task EXCEPT ![f].cursor = c, ![f].pc = "visit"]
           \/ /\ c = 0
              /\ task' = [task EXCEPT ![f].pc = "next_sibling"]
        /\ UNCHANGED <<dictionary, files, mainpc, found, total, done_files, typoVars, segVars>>

\* if cursor.goto_next_sibling() { continue; }
GotoNextSibling(f) ==
    LET t == task[f]
        c == NextSibling(files[f].parent, t.cursor)
    IN  /\ t.pc = "next_sibling"
        /\ \/ /\ c # 0
              /\ task' = [task EXCEPT ![f].cursor = c, ![f].pc = "visit"]
           \/ /\ c = 0
              /\ task' = [task EXCEPT ![f].pc = "climb"]
        /\ UNCHANGED <<dictionary, files, mainpc, found, total, done_files, typoVars, segVars>>

\* while !cursor.goto_next_sibling(): the loop ends at a sibling, and the
\* outer loop visits it
ClimbSibling(f) ==
    LET t == task[f]
        c == NextSibling(files[f].parent, t.cursor)
    IN  /\ t.pc = "climb"
        /\ \/ /\ c # 0
              /\ task' = [task EXCEPT ![f].cursor = c, ![f].pc = "visit"]
           \/ /\ c = 0
              /\ task' = [task EXCEPT ![f].pc = "climb_parent"]
        /\ UNCHANGED <<dictionary, files, mainpc, found, total, done_files, typoVars, segVars>>

\* ClimbParent with the outer loop entered again at the parent: the parent is
\* visited a second time
ClimbParentRevisit(f) ==
    LET t == task[f]
        c == Parent(files[f].parent, t.cursor)
    IN  /\ t.pc = "climb_parent"
        /\ \/ /\ c # 0
              /\ task' = [task EXCEPT ![f].cursor = c, ![f].pc = "visit"]
           \/ /\ c = 0
              /\ task' = [task EXCEPT ![f].pc = "ok"]
        /\ UNCHANGED <<dictionary, files, mainpc, found, total, done_files, typoVars, segVars>>

\* if !cursor.goto_parent() { return Ok((found, total)); }
ClimbParent(f) ==
    LET t == task[f]
        c == Parent(files[f].parent, t.cursor)
    IN  /\ t.pc = "climb_parent"
        /\ \/ /\ c # 0
              /\ task' = [task EXCEPT ![f].cursor = c, ![f].pc = "climb"]
           \/ /\ c = 0
              /\ task' = [task EXCEPT ![f].pc = "ok"]
        /\ UNCHANGED <<dictionary, files, mainpc, found, total, done_files, typoVars, segVars>>

\* The sum of field over the files of fs
RECURSIVE SumOver(_, _)
SumOver(fs, field) ==
    IF fs = {} THEN 0
    ELSE LET f == CHOOSE g \in fs : TRUE
         IN  task[f][field] + SumOver(fs \ {f}, field)

\* The files whose handle_file returned Ok: what filter_map(Result::ok) keeps
OkFiles == {f \in DOMAIN files : task[f].pc = "ok"}

\* The number printed as "Done with {} files": files.len()
ReportedFiles == Cardinality(DOMAIN files)

\* main after the parallel iterator: collect resumes a panic of a closure,
\* and otherwise the loop sums the Ok results and the summary is printed
Collect ==
    /\ mainpc = "par_iter"
    /\ \A f \in DOMAIN files : task[f].pc \in Finished
    /\ \/ /\ \E f \in DOMAIN files : task[f].pc = "panicked"
          /\ mainpc' = "panicked"
          /\ UNCHANGED <<found, total, done_files>>
       \/ /\ \A f \in DOMAIN files : task[f].pc # "panicked"
          /\ mainpc' = "done"
          /\ found' = SumOver(OkFiles, "found")
          /\ total' = SumOver(OkFiles, "total")
          /\ done_files' = ReportedFiles
    /\ UNCHANGED <<dictionary, files, task, typoVars, segVars>>


(***************************************************************************)
(* contains_typo, call by call                                             *)
(*                                                                         *)
(* A frame of the stack is one invocation: its argument (input), the part  *)
(* of the caller's word_parts it was lowercased from (part; the argument   *)
(* itself for the outermost call), its position pc                         *)
(*   "len"    at input.len() < 3                                           *)
(*   "dict"   at dictionary.contains(input)                                *)
(*   "parts"  at get_all_word_parts(input)                                 *)
(*   "loop"   at the head of the for loop, k the index of the next word    *)
(*   "wait"   inside the recursive call                                    *)
(*   "ret"    returning value                                              *)
(***************************************************************************)
Frame(in, part) ==
    [input |-> in, part |-> part, pc |-> "len", word_parts |-> <<>>, k |-> 0,
     value |-> FALSE]

Top == stack[Len(stack)]

SetTop(fr) == [stack EXCEPT ![Len(stack)] = fr]

Returning(fr, v) == [fr EXCEPT !.pc = "ret", !.value = v]

\* if input.len() < 3 { return false; }
CheckLength ==
    /\ stack # <<>> /\ Top.pc = "len"
    /\ \/ /\ TooShort(Top.input)
          /\ stack' = SetTop(Returning(Top, FALSE))
       \/ /\ ~TooShort(Top.input)
          /\ stack' = SetTop([Top EXCEPT !.pc = "dict"])
    /\ UNCHANGED <<dictionary, input, result, decompositions, runVars, segVars>>

\* if dictionary.contains(input) { return false; }
CheckDictionary ==
    /\ stack # <<>> /\ Top.pc = "dict"
    /\ \/ /\ Top.input \in dictionary
          /\ stack' = SetTop(Returning(Top, FALSE))
       \/ /\ Top.input \notin dictionary
          /\ stack' = SetTop([Top EXCEPT !.pc = "parts"])
    /\ UNCHANGED <<dictionary, input, result, decompositions, runVars, segVars>>

\* let word_parts = get_all_word_parts(input);
\* if word_parts.len() == 1 { return true; }
Decompose ==
    LET parts == get_all_word_parts(Top.input)
        fr == [Top EXCEPT !.word_parts = parts]
    IN  /\ stack # <<>> /\ Top.pc = "parts"
        /\ decompositions' = decompositions + 1
        /\ \/ /\ Len(parts) = 1
              /\ stack' = SetTop(Returning(fr, TRUE))
           \/ /\ Len(parts) # 1
              /\ stack' = SetTop([fr EXCEPT !.pc = "loop", !.k = 1])
        /\ UNCHANGED <<dictionary, input, result, runVars, segVars>>

\* Recurse with the call made on the whole input instead of the word
RecurseOnInput ==
    /\ stack # <<>> /\ Top.pc = "loop"
    /\ \/ /\ Top.k <= Len(Top.word_parts)
          /\ stack' = Append(SetTop([Top EXCEPT !.pc = "wait"]),
                             Frame(ToLowercase(Top.input), Top.input))
       \/ /\ Top.k > Len(Top.word_parts)
          /\ stack' = SetTop(Returning(Top, FALSE))
    /\ UNCHANGED <<dictionary, input, result, decompositions, runVars, segVars>>

\* for word in word_parts { contains_typo(&word.to_lowercase(), ...) }: the
\* call for the next word, or the return after the last
Recurse ==
    /\ stack # <<>> /\ Top.pc = "loop"
    /\ \/ /\ Top.k <= Len(Top.word_parts)
          /\ stack' = Append(SetTop([Top EXCEPT !.pc = "wait"]),
                             Frame(ToLowercase(Top.word_parts[Top.k]),
                                   Top.word_parts[Top.k]))
       \/ /\ Top.k > Len(Top.word_parts)
          /\ stack' = SetTop(Returning(Top, FALSE))
    /\ UNCHANGED <<dictionary, input, result, decompositions, runVars, segVars>>

\* A return: the outermost call's value is the result; a recursive call's
\* value decides between return true and the next word of the caller
Return ==
    /\ stack # <<>> /\ Top.pc = "ret"
    /\ \/ /\ Len(stack) = 1
          /\ stack' = <<>>
          /\ result' = IF Top.value THEN "true" ELSE "false"
       \/ /\ Len(stack) > 1
          /\ Top.value
          /\ stack' = [SubSeq(stack, 1, Len(stack) - 1) EXCEPT
                          ![Len(stack) - 1] = Returning(@, TRUE)]
          /\ UNCHANGED result
       \/ /\ Len(stack) > 1
          /\ ~Top.value
          /\ stack' = [SubSeq(stack, 1, Len(stack) - 1) EXCEPT
                          ![Len(stack) - 1] = [@ EXCEPT !.pc = "loop", !.k = @ + 1]]
          /\ UNCHANGED result
    /\ UNCHANGED <<dictionary, input, decompositions, runVars, segVars>>

(***************************************************************************)
(* get_all_word_parts and extract_words, stage by stage, on one text       *)
(***************************************************************************)
\* get_all_word_parts: split_special_characters(input)
StageSpecialCharacters ==
    /\ stage = "text"
    /\ word_parts' = split_special_characters(text)
    /\ stage' = "split_special_characters"
    /\ UNCHANGED <<dictionary, text, fragments, runVars, typoVars>>

\* get_all_word_parts: .flat_map(split_pascal_case).collect()
StagePascalCase ==
    /\ stage = "split_special_characters"
    /\ word_parts' = Flatten([i \in 1..Len(word_parts) |-> split_pascal_case(word_parts[i])])
    /\ stage' = "split_pascal_case"
    /\ UNCHANGED <<dictionary, text, fragments, runVars, typoVars>>

\* extract_words: text.split_whitespace()
StageWhitespace ==
    /\ stage = "split_pascal_case"
    /\ fragments' = SplitWhitespace(text)
    /\ stage' = "split_whitespace"
    /\ UNCHANGED <<dictionary, text, word_parts, runVars, typoVars>>

\* extract_words: .flat_map(split_on_numbers)
StageNumbers ==
    /\ stage = "split_whitespace"
    /\ fragments' = Flatten([i \in 1..Len(fragments) |-> split_on_numbers(fragments[i])])
    /\ stage' = "split_on_numbers"
    /\ UNCHANGED <<dictionary, text, word_parts, runVars, typoVars>>

\* extract_words: .flat_map(split_unicode_word_boundary)
StageUnicodeWords ==
    /\ stage = "split_on_numbers"
    /\ fragments' = Flatten([i \in 1..Len(fragments) |-> split_unicode_word_boundary(fragments[i])])
    /\ stage' = "split_unicode_word_boundary"
    /\ UNCHANGED <<dictionary, text, word_parts, runVars, typoVars>>

\* extract_words: .flat_map(split_snake_case)
StageSnakeCase ==
    /\ stage = "split_unicode_word_boundary"
    /\ fragments' = Flatten([i \in 1..Len(fragments) |-> split_snake_case(fragments[i])])
    /\ stage' = "split_snake_case"
    /\ UNCHANGED <<dictionary, text, word_parts, runVars, typoVars>>

\* extract_words: .flat_map(split_camel_case)
StageCamelCase ==
    /\ stage = "split_snake_case"
    /\ fragments' = Flatten([i \in 1..Len(fragments) |-> split_camel_case(fragments[i])])
    /\ stage' = "split_camel_case"
    /\ UNCHANGED <<dictionary, text, word_parts, runVars, typoVars>>

\* extract_words: .map(|s| s.to_lowercase())
StageLowercase ==
    /\ stage = "split_camel_case"
    /\ fragments' = [i \in 1..Len(fragments) |-> ToLowercase(fragments[i])]
    /\ stage' = "to_lowercase"
    /\ UNCHANGED <<dictionary, text, word_parts, runVars, typoVars>>

\* extract_words: .filter(|str| str.len() > 2)
StageFilter ==
    /\ stage = "to_lowercase"
    /\ fragments' = SelectSeq(fragments, LAMBDA w : ByteLen(w) > ShortWordBytes)
    /\ stage' = "filter"
    /\ UNCHANGED <<dictionary, text, word_parts, runVars, typoVars>>

(***************************************************************************)
(* Specifications                                                          *)
(***************************************************************************)
RunIdle ==
    /\ files = << >>
    /\ task = << >>
    /\ mainpc = "idle"
    /\ found = 0
    /\ total = 0
    /\ done_files = 0

TypoIdle ==
    /\ input = <<>>
    /\ stack = <<>>
    /\ result = "idle"
    /\ decompositions = 0

SegIdle ==
    /\ text = <<>>
    /\ stage = "idle"
    /\ word_parts = <<>>
    /\ fragments = <<>>

\* main before the parallel iterator, the dictionary loaded, on the files fs
\* drawn from choice
RunInit(fs, choice) ==
    /\ dictionary \in Dictionaries
    /\ files \in [fs -> choice]
    /\ task = [f \in fs |-> NewTask]
    /\ mainpc = "par_iter"
    /\ found = 0
    /\ total = 0
    /\ done_files = 0
    /\ TypoIdle
    /\ SegIdle

NextRun ==
    \/ \E f \in DOMAIN files : StartFile(f)
    \/ \E f \in DOMAIN files : Visit(f)
    \/ \E f \in DOMAIN files : GotoFirstChild(f)
    \/ \E f \in DOMAIN files : GotoNextSibling(f)
    \/ \E f \in DOMAIN files : ClimbSibling(f)
    \/ \E f \in DOMAIN files : ClimbParent(f)
    \/ Collect

\* The parallel run over two files
Init == RunInit(Files, AllFiles(MaxRunNodes))

Spec == Init /\ [][NextRun]_vars

\* The run over one file, of every tree of at most MaxNodes nodes; the
\* closures of par_iter and main keep taking steps
InitWalk == RunInit({"f1"}, AllFiles(MaxNodes))

SpecWalk == InitWalk /\ [][NextRun]_vars /\ WF_vars(NextRun)

\* One call of contains_typo
InitTypo ==
    /\ dictionary \in Dictionaries
    /\ input \in StringsUpTo(MaxTokenLen) \cup SampleTokens
    /\ stack = <<Frame(input, input)>>
    /\ result = "pending"
    /\ decompositions = 0
    /\ RunIdle
    /\ SegIdle

NextTypo == CheckLength \/ CheckDictionary \/ Decompose \/ Recurse \/ Return

SpecTypo == InitTypo /\ [][NextTypo]_vars /\ WF_vars(NextTypo)

\* get_all_word_parts and extract_words on one text
InitSeg ==
    /\ dictionary = {}
    /\ text \in StringsUpTo(MaxTextLen) \cup SampleTokens
    /\ stage = "text"
    /\ word_parts = <<>>
    /\ fragments = <<>>
    /\ RunIdle
    /\ TypoIdle

NextSeg ==
    \/ StageSpecialCharacters
    \/ StagePascalCase
    \/ StageWhitespace
    \/ StageNumbers
    \/ StageUnicodeWords
    \/ StageSnakeCase
    \/ StageCamelCase
    \/ StageLowercase
    \/ StageFilter

SpecSeg == InitSeg /\ [][NextSeg]_vars


(***************************************************************************)
(* Properties                                                              *)
(***************************************************************************)
\* The nodes of the subtree of n in depth-first pre-order: n, then the
\* subtrees of its children from left to right
RECURSIVE PreOrder(_, _)
PreOrder(parent, n) ==
    LET cs == {i \in 1..Len(parent) : parent[i] = n}
        sub[i \in 0..Len(parent)] ==
            IF i = 0 THEN <<>>
            ELSE IF i \in cs THEN sub[i - 1] \o PreOrder(parent, i)
            ELSE sub[i - 1]
    IN  <<n>> \o sub[Len(parent)]

IsPrefix(a, b) == Len(a) <= Len(b) /\ a = SubSeq(b, 1, Len(a))

\* The text of node n of file f
NodeText(f, n) == Slice(Content, files[f].label[n].range)

\* The nodes of file f whose loop body ran to the counters
Processed(f) ==
    IF task[f].pc = "panicked"
    THEN SubSeq(task[f].visited, 1, Len(task[f].visited) - 1)
    ELSE task[f].visited

WalkOrder(f) ==
    LET t == task[f]
        pre == PreOrder(files[f].parent, 1)
    IN  /\ t.pc \in Walking \cup {"ok", "panicked"} => IsPrefix(t.visited, pre)
        /\ t.pc = "ok" => t.visited = pre /\ t.cursor = 1
        /\ t.pc = "panicked" =>
              ~ValidRange(Content, files[f].label[t.visited[Len(t.visited)]].range)

ReturnsAtRoot(f) ==
    task'[f].pc = "ok" /\ task[f].pc # "ok" =>
        /\ task[f].pc = "climb_parent"
        /\ task[f].cursor = 1
        /\ NextSibling(files[f].parent, 1) = 0

\* C1: the cursor walk of handle_file visits the nodes of the tree in
\* depth-first pre-order, each node once: at every step the nodes visited
\* are a prefix of the pre-order, a walk that returns has visited all of it,
\* it returns only from goto_parent failing at the root, and the only other
\* end of a walk is the panic of a visit; every walk ends.
C1_PreOrderWalk ==
    /\ [](\A f \in DOMAIN files : WalkOrder(f))
    /\ [][\A f \in DOMAIN files : ReturnsAtRoot(f)]_vars
    /\ <>(\A f \in DOMAIN files : task[f].pc \in Finished)

\* C1 witness: a walk has returned on the tree 1(2(4), 3), where node 3 is
\* reached by climbing from 4 to 2 and moving to the sibling of 2.
C1_Witness ==
    \E f \in DOMAIN files :
        /\ task[f].pc = "ok"
        /\ files[f].parent = <<0, 1, 1, 2>>
        /\ task[f].visited = <<1, 2, 4, 3>>

C4_RecognizedPartsAreClean ==
    result \in {"true", "false"} =>
        LET parts == get_all_word_parts(input)
        IN  (\A k \in 1..Len(parts) : ToLowercase(parts[k]) \in dictionary) =>
                result = "false"

\* C5 (as in the specification): get_all_word_parts and extract_words return
\* at least one element for every non-empty string.
C5_SegmentationTotal ==
    /\ stage \notin {"idle", "text", "split_special_characters"} /\ text # <<>> =>
          word_parts # <<>>
    /\ stage = "filter" /\ text # <<>> => fragments # <<>>

NoBoundary(s) ==
    /\ s # <<>>
    /\ \A i \in 1..Len(s) : WordBreak(s[i]) \in {"ALetter", "Numeric", "ExtendNumLet"}
    /\ \E i \in 1..Len(s) : WordBreak(s[i]) \in {"ALetter", "Numeric"}
    /\ \A i \in 2..Len(s) : s[i] \notin {"A", "Idot"}

\* C5 (amended): get_all_word_parts returns at least one element exactly
\* for the strings that hold a letter or a digit, and the string itself when
\* it is one word with no uppercase letter after its first character;
\* extract_words returns only words of at least 3 bytes, and nothing for a
\* string shorter than 3 bytes.
C5_TotalOnWords ==
    /\ stage \notin {"idle", "text", "split_special_characters"} =>
          /\ word_parts # <<>> <=>
                \E i \in 1..Len(text) : text[i] \in {"a", "i", "A", "Idot", "1"}
          /\ NoBoundary(text) => word_parts = <<text>>
    /\ stage = "filter" =>
          /\ \A k \in 1..Len(fragments) : ByteLen(fragments[k]) >= 3
          /\ ByteLen(text) < 3 => fragments = <<>>

\* C5 witness: both chains have run on a non-empty string of punctuation,
\* whitespace and underscores, and both returned nothing.
C5_Witness ==
    /\ stage = "filter"
    /\ Len(text) = 3
    /\ word_parts = <<>>
    /\ fragments = <<>>

\* C6: a failure of one file does not abort the run, and the found and total
\* of the run are the sums over the files that did not fail.
C6_FailuresAreFileScoped ==
    /\ mainpc # "panicked"
    /\ mainpc = "done" =>
          /\ found = SumOver({f \in DOMAIN files : task[f].pc = "ok"}, "found")
          /\ total = SumOver({f \in DOMAIN files : task[f].pc = "ok"}, "total")

\* C7: the number of files reported as done is the number of files whose
\* analysis returned Ok, and a failed file adds nothing to found and total.
C7_DoneCountsCompletedFiles ==
    mainpc = "done" =>
        /\ done_files = Cardinality({f \in DOMAIN files : task[f].pc = "ok"})
        /\ found = SumOver({f \in DOMAIN files : task[f].pc = "ok"}, "found")
        /\ total = SumOver({f \in DOMAIN files : task[f].pc = "ok"}, "total")

\* The words contains_typo judges: the parts lowercased, those shorter
\* than 3 bytes left out
SubWords(parts) ==
    SelectSeq([i \in 1..Len(parts) |-> ToLowercase(parts[i])], LAMBDA w : ByteLen(w) >= 3)

\* C8: the parts the classifier recurses over are the words of extract_words:
\* get_all_word_parts and extract_words decompose a string at the same
\* boundaries.
C8_SameDecomposition ==
    stage = "filter" => SubWords(word_parts) = fragments

\* C9 (as in the specification): every recursive call is made on a string
\* strictly shorter, in bytes or in characters, than the input of the
\* calling invocation.
C9_CalleeShorter ==
    \A i \in 2..Len(stack) :
        \/ ByteLen(stack[i].input) < ByteLen(stack[i - 1].input)
        \/ Len(stack[i].input) < Len(stack[i - 1].input)

CallsDecrease ==
    \A i \in 2..Len(stack) :
        /\ Len(stack[i - 1].word_parts) >= 2
        /\ stack[i - 1].pc = "wait"
        /\ stack[i].part = stack[i - 1].word_parts[stack[i - 1].k]
        /\ stack[i].input = ToLowercase(stack[i].part)
        /\ ByteLen(stack[i].part) < ByteLen(stack[i - 1].input)
        /\ Len(stack[i].part) < Len(stack[i - 1].input)

SinglePartReturns ==
    \A i \in 1..Len(stack) :
        Len(stack[i].word_parts) = 1 =>
            i = Len(stack) /\ stack[i].pc = "ret" /\ stack[i].value

\* C9 (amended): the recursion ends for every token and dictionary; a
\* single-part decomposition returns true without recursing; a recursive
\* call is made only from a decomposition of two or more parts, on the
\* lowercase form of a part that is strictly shorter than the caller's input
\* in bytes and in characters; the call on a lowercased part does not recurse
\* again, so the stack never holds more than two invocations.
C9_RecursionEnds ==
    /\ [](CallsDecrease /\ SinglePartReturns /\ Len(stack) <= 2)
    /\ <>(result \in {"true", "false"})

\* C9 witness: a recursive call is running on a lowercased part that is as
\* long as the caller's input.
C9_Witness ==
    /\ Len(stack) = 2
    /\ ByteLen(stack[2].input) = ByteLen(stack[1].input)
    /\ Len(stack[2].input) = Len(stack[1].input)
    /\ stack[2].pc = "ret"

\* C10: split_camel_case puts every letter of a fragment of letters in
\* exactly one of the resulting words, in order.
C10_EveryLetterInOneWord ==
    /\ stage = "split_camel_case"
    /\ text # <<>>
    /\ \A i \in 1..Len(text) : text[i] \in {"a", "i", "A", "Idot"}
    => Flatten(fragments) = text

=============================================================================
